---- MODULE Spec2Model ----
(***************************************************************************)
(* Model of analizadorLexico.py: the AnalizadorLexico class (dictionary    *)
(* load, identifier pattern, three-step classification, batch analysis,    *)
(* report generation) and main().                                          *)
(*                                                                         *)
(* A Python str is modelled as a sequence of one-character strings, a dict *)
(* as a function whose DOMAIN is its key set, a list of tuples as a        *)
(* sequence of tuples.                                                     *)
(*                                                                         *)
(*   Spec     one run of main(): construct, analizar_archivo, return.      *)
(*   SpecAPI  a client that constructs the analyzer and then calls         *)
(*            clasificar_token / es_identificador on arbitrary strings.    *)
(*   SpecCarga  the constructor alone: cargar_diccionario on every         *)
(*            dictionary file within the bounds.                           *)
(***************************************************************************)
EXTENDS Integers, Sequences, FiniteSets, TLC

\* ------------------------------------------------------------------ bounds

\* Lines the dictionary file may hold.
MaxLineas == 2

\* Whitespace-separated words the input text may hold.
MaxTokens == 3

\* Length of the strings a client passes to the classifier directly.
MaxCadena == 3

\* ------------------------------------------------------- program constants

\* Column width of the report: the "<20" of the format specs.
Ancho == 20

\* Length of the report's separator rule: "-" * 40.
AnchoRegla == 40

IDENTIFICADOR == <<"I", "D", "E", "N", "T", "I", "F", "I", "C", "A", "D", "O", "R">>

ERROR_LEXICO == <<"E", "R", "R", "O", "R", "_", "L", "E", "X", "I", "C", "O">>

\* ------------------------------------------------------------ Python's str

\* The characters str.strip() and str.split() treat as whitespace (the
\* ASCII ones).
Espacios == {" ", "\t", "\n", "\r", "\f"}

Minusculas ==
    {"a", "b", "c", "d", "e", "f", "g", "h", "i", "j", "k", "l", "m",
     "n", "o", "p", "q", "r", "s", "t", "u", "v", "w", "x", "y", "z"}

Digitos == {"0", "1", "2", "3", "4", "5", "6", "7", "8", "9"}

\* str.strip(): the string without its leading and trailing whitespace.
strip(s) ==
    LET negros == {i \in 1..Len(s) : s[i] \notin Espacios}
    IN  IF negros = {} THEN <<>>
        ELSE LET a == CHOOSE i \in negros : \A j \in negros : i <= j
                 b == CHOOSE i \in negros : \A j \in negros : j <= i
             IN  SubSeq(s, a, b)

\* str.split() without arguments: the maximal runs of non-whitespace
\* characters, in order; never an empty field.
split(s) ==
    LET RECURSIVE recorrer(_, _, _)
        recorrer(i, actual, campos) ==
            LET cerrado == IF actual = <<>> THEN campos
                           ELSE Append(campos, actual)
            IN  IF i > Len(s) THEN cerrado
                ELSE IF s[i] \in Espacios THEN recorrer(i + 1, <<>>, cerrado)
                ELSE recorrer(i + 1, Append(actual, s[i]), campos)
    IN  recorrer(1, <<>>, <<>>)

\* format(s, "<n"): s left-aligned in a field of n columns, padded with
\* spaces, never truncated.
ljust(s, n) ==
    IF Len(s) >= n THEN s ELSE s \o [i \in 1..(n - Len(s)) |-> " "]

\* ----------------------------------------------------------- Python's dict

dict_vacio == [k \in {} |-> <<>>]

\* d[k] = v
setitem(d, k, v) == [x \in (DOMAIN d) \cup {k} |-> IF x = k THEN v ELSE d[x]]

\* d[k]: the value, or KeyError.
getitem(d, k) ==
    IF k \in DOMAIN d THEN [raised |-> FALSE, valor |-> d[k]]
    ELSE [raised |-> TRUE, valor |-> <<>>]

\* ------------------------------------------------------------- environment

\* Lines a dictionary file may hold, each as iteration over the file yields
\* it (with its line break, but for a last line without one).
KW == <<"K", "W">>

Lineas ==
    { <<"a", " ", "K", "W", "\n">>,
      <<" ", "a", "\t">> \o ERROR_LEXICO \o <<" ", "\n">>,
      <<"A", " ">> \o IDENTIFICADOR,
      <<"a", "\n">>,
      <<"a", " ", "K", "W", " ", "K", "W", "\n">>,
      <<" ", "\n">> }

\* Words of the input text: a keyword candidate that is an identifier, one
\* that is not, an identifier that is no keyword, and a word that is neither.
Palabras == { <<"a">>, <<"A">>, <<"a", "1">>, <<"1", "a">> }

\* What follows the i-th word of a text: a space, or a line break and a tab.
Separador(i) == IF i % 2 = 1 THEN <<" ">> ELSE <<"\n", "\t">>

SeqHasta(S, n) == UNION { [1..k -> S] : k \in 0..n }

RECURSIVE unir(_, _)
unir(ws, i) ==
    IF i > Len(ws) THEN <<>> ELSE ws[i] \o Separador(i) \o unir(ws, i + 1)

Textos == { unir(ws, 1) : ws \in SeqHasta(Palabras, MaxTokens) }

\* Strings a client may pass: every string up to MaxCadena over an alphabet
\* with a lowercase letter, a digit, an uppercase letter, a symbol and a
\* line break.
Alfabeto == {"a", "1", "A", "_", "\n"}

Cadenas == SeqHasta(Alfabeto, MaxCadena)

\* ------------------------------------------------------------------- state

VARIABLES
    pc,              \* where the run is
    fuente,          \* the dictionary file: "falta", "legible", "ilegible"
    leidas,          \* the dictionary lines read so far (history)
    palabras_clave,  \* self.palabras_clave
    impreso,         \* the numbers printed as "Diccionario cargado: n"
    contenido,       \* the input file: [estado, texto]
    palabras,        \* analizar_archivo's palabras
    tokens,          \* analizar_archivo's tokens
    salida,          \* the output file: [escrito, lineas]
    retorno,         \* main's return value, once it returned
    exito,           \* whether main printed "Proceso completado exitosamente"
    ultimo           \* the client's last direct call and its result

vars == <<pc, fuente, leidas, palabras_clave, impreso, contenido, palabras,
          tokens, salida, retorno, exito, ultimo>>

Init ==
    /\ pc = "inicio"
    /\ fuente \in {"falta", "legible", "ilegible"}
    /\ leidas = <<>>
    /\ palabras_clave = dict_vacio
    /\ impreso = <<>>
    /\ contenido = [estado |-> "sin_abrir", texto |-> <<>>]
    /\ palabras = <<>>
    /\ tokens = <<>>
    /\ salida = [escrito |-> FALSE, lineas |-> <<>>]
    /\ retorno = <<>>
    /\ exito = FALSE
    /\ ultimo = <<>>

\* ------------------------------------------------- AnalizadorLexico: load

\* Mutation of ProcesarLinea: the first line carrying a lexeme wins
\* (setdefault instead of assignment).
ProcesarLineaPrimeraGana(tabla, linea) ==
    LET l == strip(linea)
    IN  IF l # <<>>
        THEN LET partes == split(l)
             IN  IF Len(partes) = 2 /\ partes[1] \notin DOMAIN tabla
                 THEN setitem(tabla, partes[1], partes[2])
                 ELSE tabla
        ELSE tabla

\* Mutation of ProcesarLinea: a line with more than two fields is taken for
\* its first two (len(partes) >= 2).
ProcesarLineaCamposDeMas(tabla, linea) ==
    LET l == strip(linea)
    IN  IF l # <<>>
        THEN LET partes == split(l)
             IN  IF Len(partes) >= 2
                 THEN setitem(tabla, partes[1], partes[2])
                 ELSE tabla
        ELSE tabla

\* The body of cargar_diccionario's loop for one line.
ProcesarLinea(tabla, linea) ==
    LET l == strip(linea)
    IN  IF l # <<>>
        THEN LET partes == split(l)
             IN  IF Len(partes) = 2
                 THEN setitem(tabla, partes[1], partes[2])
                 ELSE tabla
        ELSE tabla

\* __init__ up to the open() of cargar_diccionario, the file being there.
AbrirDiccionario ==
    /\ pc = "inicio"
    /\ fuente # "falta"
    /\ pc' = "cargando"
    /\ palabras_clave' = dict_vacio
    /\ UNCHANGED <<fuente, leidas, impreso, contenido, palabras, tokens,
                   salida, retorno, exito, ultimo>>

\* open() raises FileNotFoundError: printed and re-raised out of __init__.
DiccionarioNoEncontrado ==
    /\ pc = "inicio"
    /\ fuente = "falta"
    /\ pc' = "excepcion"
    /\ palabras_clave' = dict_vacio
    /\ UNCHANGED <<fuente, leidas, impreso, contenido, palabras, tokens,
                   salida, retorno, exito, ultimo>>

\* One iteration of "for linea in f".
LeerLinea(linea) ==
    /\ pc = "cargando"
    /\ Len(leidas) < MaxLineas
    /\ leidas' = Append(leidas, linea)
    /\ palabras_clave' = ProcesarLinea(palabras_clave, linea)
    /\ UNCHANGED <<pc, fuente, impreso, contenido, palabras, tokens, salida,
                   retorno, exito, ultimo>>

\* Mutation of FinDiccionario: a load that ends with no entry raises.
FinDiccionarioVacioFalla ==
    /\ pc = "cargando"
    /\ fuente = "legible"
    /\ IF DOMAIN palabras_clave = {}
       THEN pc' = "excepcion" /\ UNCHANGED impreso
       ELSE /\ impreso' = Append(impreso, Cardinality(DOMAIN palabras_clave))
            /\ pc' = "cargado"
    /\ UNCHANGED <<fuente, leidas, palabras_clave, contenido, palabras,
                   tokens, salida, retorno, exito, ultimo>>

\* The file ends: the count is printed and cargar_diccionario returns.
FinDiccionario ==
    /\ pc = "cargando"
    /\ fuente = "legible"
    /\ impreso' = Append(impreso, Cardinality(DOMAIN palabras_clave))
    /\ pc' = "cargado"
    /\ UNCHANGED <<fuente, leidas, palabras_clave, contenido, palabras,
                   tokens, salida, retorno, exito, ultimo>>

\* Mutation of ErrorLectura: the error is printed and not re-raised, so the
\* constructor returns with the entries read so far.
ErrorLecturaSilenciado ==
    /\ pc = "cargando"
    /\ fuente = "ilegible"
    /\ pc' = "cargado"
    /\ UNCHANGED <<fuente, leidas, palabras_clave, impreso, contenido,
                   palabras, tokens, salida, retorno, exito, ultimo>>

\* Reading fails (an I/O or decoding error): printed and re-raised.
ErrorLectura ==
    /\ pc = "cargando"
    /\ fuente = "ilegible"
    /\ pc' = "excepcion"
    /\ UNCHANGED <<fuente, leidas, palabras_clave, impreso, contenido,
                   palabras, tokens, salida, retorno, exito, ultimo>>

Cargar ==
    \/ AbrirDiccionario
    \/ DiccionarioNoEncontrado
    \/ \E linea \in Lineas : LeerLinea(linea)
    \/ FinDiccionario
    \/ ErrorLectura

\* ------------------------------------------- AnalizadorLexico: classify

\* Where "$" matches without re.MULTILINE, having consumed the first k
\* characters: at the end of the string, and just before a line break that
\* is the string's last character.
FinDePatron(s, k) ==
    \/ k = Len(s)
    \/ k = Len(s) - 1 /\ s[Len(s)] = "\n"

\* bool(self.patron_identificador.match(palabra)), the pattern being
\* ^[a-z][a-z0-9]*$ : some prefix of k >= 1 characters is a lowercase letter
\* followed by lowercase letters and digits, and "$" matches after it.
es_identificador(palabra) ==
    \E k \in 1..Len(palabra) :
        /\ palabra[1] \in Minusculas
        /\ \A j \in 2..k : palabra[j] \in Minusculas \cup Digitos
        /\ FinDePatron(palabra, k)

\* The tuple clasificar_token returns, with the return statement that
\* produced it (rama: "A", "B", "C"); raised: an exception left instead.
Tupla(tipo, lexema, rama) ==
    [raised |-> FALSE, tipo |-> tipo, lexema |-> lexema, rama |-> rama]

Excepcion(lexema) ==
    [raised |-> TRUE, tipo |-> <<>>, lexema |-> lexema, rama |-> "raise"]

\* Mutation of clasificar_token: the identifier pattern is tried before the
\* table.
clasificar_identificador_primero(tabla, palabra) ==
    IF es_identificador(palabra)
    THEN Tupla(IDENTIFICADOR, palabra, "B")
    ELSE IF palabra \in DOMAIN tabla
    THEN Tupla(tabla[palabra], palabra, "A")
    ELSE Tupla(ERROR_LEXICO, palabra, "C")

\* Mutation of clasificar_token: an unrecognized token raises instead of
\* being returned as ERROR_LEXICO.
clasificar_sin_paso_c(tabla, palabra) ==
    IF palabra \in DOMAIN tabla
    THEN Tupla(tabla[palabra], palabra, "A")
    ELSE IF es_identificador(palabra)
    THEN Tupla(IDENTIFICADOR, palabra, "B")
    ELSE Excepcion(palabra)

\* Mutation of clasificar_token: the identifier test is negated.
clasificar_patron_negado(tabla, palabra) ==
    IF palabra \in DOMAIN tabla
    THEN Tupla(tabla[palabra], palabra, "A")
    ELSE IF ~es_identificador(palabra)
    THEN Tupla(IDENTIFICADOR, palabra, "B")
    ELSE Tupla(ERROR_LEXICO, palabra, "C")

clasificar_token(tabla, palabra) ==
    IF palabra \in DOMAIN tabla
    THEN LET v == getitem(tabla, palabra)
         IN  IF v.raised THEN Excepcion(palabra)
             ELSE Tupla(v.valor, palabra, "A")
    ELSE IF es_identificador(palabra)
    THEN Tupla(IDENTIFICADOR, palabra, "B")
    ELSE Tupla(ERROR_LEXICO, palabra, "C")

\* ------------------------------------------- AnalizadorLexico: the batch

\* One report line: f"{tipo_token:<20} {lexema:<20}\n".
LineaInforme(tipo, lexema) ==
    ljust(tipo, Ancho) \o <<" ">> \o ljust(lexema, Ancho) \o <<"\n">>

Encabezado == LineaInforme(<<"T", "o", "k", "e", "n">>, <<"L", "e", "x", "e", "m", "a">>)

Regla == [i \in 1..AnchoRegla |-> "-"] \o <<"\n">>

\* What generar_salida writes to the file for the list toks.
Informe(toks) ==
    <<Encabezado, Regla>> \o [i \in 1..Len(toks) |-> LineaInforme(toks[i][1], toks[i][2])]

\* analizar_archivo opens and reads the input and splits it into words.
AbrirEntrada(texto) ==
    /\ pc = "cargado"
    /\ contenido.estado = "sin_abrir"
    /\ contenido' = [estado |-> "leido", texto |-> texto]
    /\ palabras' = split(texto)
    /\ tokens' = <<>>
    /\ pc' = "clasificando"
    /\ UNCHANGED <<fuente, leidas, palabras_clave, impreso, salida, retorno,
                   exito, ultimo>>

\* open() raises FileNotFoundError: printed and re-raised.
EntradaNoEncontrada ==
    /\ pc = "cargado"
    /\ contenido.estado = "sin_abrir"
    /\ contenido' = [estado |-> "falta", texto |-> <<>>]
    /\ tokens' = <<>>
    /\ pc' = "excepcion"
    /\ UNCHANGED <<fuente, leidas, palabras_clave, impreso, palabras, salida,
                   retorno, exito, ultimo>>

\* Mutation of ClasificarPalabra: the result is inserted at the head of the
\* list (tokens.insert(0, ...)).
ClasificarPalabraAlInicio ==
    /\ pc = "clasificando"
    /\ Len(tokens) < Len(palabras)
    /\ LET r == clasificar_token(palabras_clave, palabras[Len(tokens) + 1])
       IN  IF r.raised
           THEN pc' = "excepcion" /\ UNCHANGED tokens
           ELSE tokens' = <<<<r.tipo, r.lexema>>>> \o tokens /\ UNCHANGED pc
    /\ UNCHANGED <<fuente, leidas, palabras_clave, impreso, contenido,
                   palabras, salida, retorno, exito, ultimo>>

\* Mutation of ClasificarPalabra: a word found to be no keyword is
\* remembered in the table as a lexical error.
ClasificarPalabraMemo ==
    /\ pc = "clasificando"
    /\ Len(tokens) < Len(palabras)
    /\ LET p == palabras[Len(tokens) + 1]
           r == clasificar_token(palabras_clave, p)
       IN  /\ IF r.raised
              THEN pc' = "excepcion" /\ UNCHANGED tokens
              ELSE tokens' = Append(tokens, <<r.tipo, r.lexema>>) /\ UNCHANGED pc
           /\ palabras_clave' = IF p \in DOMAIN palabras_clave THEN palabras_clave
                                ELSE setitem(palabras_clave, p, ERROR_LEXICO)
    /\ UNCHANGED <<fuente, leidas, impreso, contenido, palabras, salida,
                   retorno, exito, ultimo>>

\* One iteration of "for palabra in palabras".
ClasificarPalabra ==
    /\ pc = "clasificando"
    /\ Len(tokens) < Len(palabras)
    /\ LET r == clasificar_token(palabras_clave, palabras[Len(tokens) + 1])
       IN  IF r.raised
           THEN pc' = "excepcion" /\ UNCHANGED tokens
           ELSE tokens' = Append(tokens, <<r.tipo, r.lexema>>) /\ UNCHANGED pc
    /\ UNCHANGED <<fuente, leidas, palabras_clave, impreso, contenido,
                   palabras, salida, retorno, exito, ultimo>>

\* The loop is over: generar_salida writes the report and analizar_archivo
\* returns.
GenerarSalida ==
    /\ pc = "clasificando"
    /\ Len(tokens) = Len(palabras)
    /\ salida' = [escrito |-> TRUE, lineas |-> Informe(tokens)]
    /\ pc' = "analizado"
    /\ UNCHANGED <<fuente, leidas, palabras_clave, impreso, contenido,
                   palabras, tokens, retorno, exito, ultimo>>

\* generar_salida cannot open the output file: printed and re-raised.
ErrorSalida ==
    /\ pc = "clasificando"
    /\ Len(tokens) = Len(palabras)
    /\ pc' = "excepcion"
    /\ UNCHANGED <<fuente, leidas, palabras_clave, impreso, contenido,
                   palabras, tokens, salida, retorno, exito, ultimo>>

Analizar ==
    \/ \E texto \in Textos : AbrirEntrada(texto)
    \/ EntradaNoEncontrada
    \/ ClasificarPalabra
    \/ GenerarSalida
    \/ ErrorSalida

\* -------------------------------------------------------------------- main

\* analizar_archivo returned: success is printed, main returns 0.
MainCompletado ==
    /\ pc = "analizado"
    /\ exito' = TRUE
    /\ retorno' = <<0>>
    /\ pc' = "fin"
    /\ UNCHANGED <<fuente, leidas, palabras_clave, impreso, contenido,
                   palabras, tokens, salida, ultimo>>

\* main's "except Exception": the error is printed, main returns 1.
MainCapturaExcepcion ==
    /\ pc = "excepcion"
    /\ retorno' = <<1>>
    /\ pc' = "fin"
    /\ UNCHANGED <<fuente, leidas, palabras_clave, impreso, contenido,
                   palabras, tokens, salida, exito, ultimo>>

Next ==
    \/ Cargar
    \/ Analizar
    \/ MainCompletado
    \/ MainCapturaExcepcion

Spec == Init /\ [][Next]_vars

\* ------------------------------------------------------- a direct client

\* analizador.clasificar_token(t) on a constructed analyzer (the client's
\* one direct call: a second one would find the same table).
LlamarClasificar(t) ==
    /\ pc = "cargado"
    /\ ultimo = <<>>
    /\ ultimo' = << [fn |-> "clasificar_token", palabra |-> t,
                     res |-> clasificar_token(palabras_clave, t)] >>
    /\ UNCHANGED <<pc, fuente, leidas, palabras_clave, impreso, contenido,
                   palabras, tokens, salida, retorno, exito>>

\* analizador.es_identificador(t) on a constructed analyzer.
LlamarEsIdentificador(t) ==
    /\ pc = "cargado"
    /\ ultimo = <<>>
    /\ ultimo' = << [fn |-> "es_identificador", palabra |-> t,
                     res |-> es_identificador(t)] >>
    /\ UNCHANGED <<pc, fuente, leidas, palabras_clave, impreso, contenido,
                   palabras, tokens, salida, retorno, exito>>

NextAPI ==
    \/ Cargar
    \/ \E t \in Cadenas : LlamarClasificar(t)
    \/ \E t \in Cadenas : LlamarEsIdentificador(t)

SpecAPI == Init /\ [][NextAPI]_vars

\* -------------------------------------------------- the constructor alone

SpecCarga == Init /\ [][Cargar]_vars

\* ------------------------------------------------------ what the claims say

\* The pattern as documented: the ENTIRE string is one lowercase letter
\* followed by zero or more lowercase letters or digits.
PatronDocumentado(t) ==
    /\ Len(t) >= 1
    /\ t[1] \in Minusculas
    /\ \A j \in 2..Len(t) : t[j] \in Minusculas \cup Digitos

\* A dictionary line is well formed: exactly two whitespace-separated fields.
BienFormada(linea) == Len(split(linea)) = 2

LexemaDe(linea) == split(linea)[1]

TipoDe(linea) == split(linea)[2]

\* The places of the well-formed lines among the lines h.
BienFormadas(h) == {i \in 1..Len(h) : BienFormada(h[i])}

\* The lexemes the well-formed lines of h carry.
LexemasDe(h) == {LexemaDe(h[i]) : i \in BienFormadas(h)}

\* The place of the last well-formed line of h carrying lexeme lex.
UltimaCon(h, lex) ==
    CHOOSE i \in BienFormadas(h) :
        /\ LexemaDe(h[i]) = lex
        /\ \A j \in BienFormadas(h) : LexemaDe(h[j]) = lex => j <= i

\* The client's direct calls of clasificar_token / es_identificador.
LlamadasClasificar == {i \in 1..Len(ultimo) : ultimo[i].fn = "clasificar_token"}

LlamadasEsIdentificador == {i \in 1..Len(ultimo) : ultimo[i].fn = "es_identificador"}

\* The words analizar_archivo is to classify: the input text split on
\* whitespace.
PalabrasDeEntrada == split(contenido.texto)

\* ------------------------------------------------------------------ claims

\* C1. Keyword precedence: a token that is a key of palabras_clave gets the
\* kind the table records for it, from the first return statement, also when
\* it matches the identifier pattern; the identifier and error returns are
\* reached only for a token that is no key of the table.
C1_PrecedenciaPalabraClave ==
    \A i \in LlamadasClasificar :
        LET t == ultimo[i].palabra
            r == ultimo[i].res
        IN  /\ t \in DOMAIN palabras_clave =>
                /\ ~r.raised
                /\ r.rama = "A"
                /\ r.tipo = palabras_clave[t]
                /\ r.lexema = t
            /\ r.rama \in {"B", "C"} => t \notin DOMAIN palabras_clave

\* A keyword that also matches the identifier pattern was classified, and
\* got the table's kind.
C1_Testigo ==
    \E i \in LlamadasClasificar :
        /\ ultimo[i].palabra = <<"a">>
        /\ <<"a">> \in DOMAIN palabras_clave
        /\ es_identificador(ultimo[i].palabra)
        /\ ultimo[i].res.tipo = KW

\* C2. es_identificador(t) is true if and only if the entire string t is one
\* lowercase letter followed by zero or more lowercase letters or digits.
C2_PatronCompleto ==
    \A i \in LlamadasEsIdentificador :
        ultimo[i].res <=> PatronDocumentado(ultimo[i].palabra)

C4_OrdenPreservado ==
    LET w == PalabrasDeEntrada
    IN  /\ Len(tokens) <= Len(w)
        /\ \A i \in 1..Len(tokens) :
               tokens[i] = <<clasificar_token(palabras_clave, w[i]).tipo, w[i]>>
        /\ salida.escrito =>
               /\ Len(tokens) = Len(w)
               /\ Len(salida.lineas) = Len(w) + 2
               /\ \A i \in 1..Len(w) :
                      split(salida.lineas[i + 2])
                          = <<clasificar_token(palabras_clave, w[i]).tipo, w[i]>>

\* A report of three words of three different kinds was written.
C4_Testigo ==
    /\ salida.escrito
    /\ Len(salida.lineas) = 5
    /\ PalabrasDeEntrada = << <<"a">>, <<"a", "1">>, <<"1", "a">> >>
    /\ tokens[1][1] = KW
    /\ tokens[2][1] = IDENTIFICADOR
    /\ tokens[3][1] = ERROR_LEXICO

\* C5. Last write wins: the keys of palabras_clave are exactly the lexemes of
\* the well-formed lines read, each once, with the kind of the LAST
\* well-formed line carrying it; a lookup finds a token only under exactly
\* that lexeme (case-sensitive).
C5_UltimaEscrituraGana ==
    /\ DOMAIN palabras_clave = LexemasDe(leidas)
    /\ \A lex \in DOMAIN palabras_clave :
           palabras_clave[lex] = TipoDe(leidas[UltimaCon(leidas, lex)])
    /\ \A t \in Cadenas :
           clasificar_token(palabras_clave, t).rama = "A" <=> t \in LexemasDe(leidas)

\* Two well-formed lines with the same lexeme and different kinds were
\* loaded, and the lexeme in another case is not found.
C5_Testigo ==
    /\ pc = "cargado"
    /\ \E i, j \in BienFormadas(leidas) :
           /\ i < j
           /\ LexemaDe(leidas[i]) = LexemaDe(leidas[j])
           /\ TipoDe(leidas[i]) # TipoDe(leidas[j])
           /\ palabras_clave[LexemaDe(leidas[j])] = TipoDe(leidas[j])
    /\ <<"a">> \in DOMAIN palabras_clave
    /\ clasificar_token(palabras_clave, <<"A">>).rama = "C"

\* C6 as stated: after the load the table size, the number printed as
\* loaded, equals the count of well-formed lines.
C6_TamanoIgualLineas ==
    pc = "cargado" =>
        /\ impreso = <<Cardinality(BienFormadas(leidas))>>
        /\ Cardinality(DOMAIN palabras_clave) = Cardinality(BienFormadas(leidas))

\* C6 as amended: malformed lines never abort the load nor enter the table,
\* and after the load the table size, the number printed as loaded, equals
\* the number of DISTINCT lexemes of the well-formed lines (at most the count
\* of well-formed lines).
C6_TamanoIgualLexemas ==
    /\ pc = "excepcion" => fuente # "legible"
    /\ DOMAIN palabras_clave = LexemasDe(leidas)
    /\ pc = "cargado" =>
           /\ impreso = <<Cardinality(LexemasDe(leidas))>>
           /\ Cardinality(DOMAIN palabras_clave) <= Cardinality(BienFormadas(leidas))

\* A load with a three-field line and a well-formed line ended with one
\* entry printed.
C6_Testigo ==
    /\ pc = "cargado"
    /\ impreso = <<1>>
    /\ \E i \in 1..Len(leidas) : Len(split(leidas[i])) = 3
    /\ BienFormadas(leidas) # {}

\* C7. Load failure aborts the run: a missing or unreadable dictionary never
\* leaves a constructed analyzer, no token is classified, no output is
\* written; a missing input text leaves no output either; in both cases main
\* never reports success and returns 1.
C7_FalloDeCargaAborta ==
    /\ fuente # "legible" =>
           /\ pc \in {"inicio", "cargando", "excepcion", "fin"}
           /\ tokens = <<>>
           /\ ~salida.escrito
           /\ ~exito
           /\ pc = "fin" => retorno = <<1>>
           /\ pc # "fin" => retorno = <<>>
    /\ contenido.estado = "falta" =>
           /\ pc \in {"excepcion", "fin"}
           /\ tokens = <<>>
           /\ ~salida.escrito
           /\ ~exito
           /\ pc = "fin" => retorno = <<1>>
           /\ pc # "fin" => retorno = <<>>

\* The dictionary became unreadable after an entry had been loaded, and main
\* returned 1.
C7_Testigo ==
    /\ fuente = "ilegible"
    /\ DOMAIN palabras_clave # {}
    /\ pc = "fin"
    /\ retorno = <<1>>

\* C8 as stated: a dictionary source with no entries makes cargar_diccionario
\* raise; it never returns with a zero-entry table.
C8_VacioEsError ==
    pc = "cargado" => DOMAIN palabras_clave # {}

\* C8 as amended: cargar_diccionario raises only for a missing or unreadable
\* source; a readable source with no entries makes it return with a
\* zero-entry table, printing 0.
C8_VacioEsValido ==
    /\ pc = "excepcion" => fuente \in {"falta", "ilegible"}
    /\ fuente = "legible" => pc \in {"inicio", "cargando", "cargado"}
    /\ (pc = "cargado" /\ BienFormadas(leidas) = {}) =>
           /\ palabras_clave = dict_vacio
           /\ impreso = <<0>>

\* An empty dictionary file was loaded.
C8_Testigo ==
    /\ pc = "cargado"
    /\ fuente = "legible"
    /\ leidas = <<>>
    /\ DOMAIN palabras_clave = {}

\* C9. Classification has no effect on state: once the dictionary is loaded
\* no step changes palabras_clave, and a word met again later in the batch
\* gets the result it got before.
C9_SinEfecto ==
    /\ [][(pc \in {"cargado", "clasificando", "analizado"}
               => (palabras_clave' = palabras_clave))]_vars
    /\ [](\A i, j \in 1..Len(tokens) :
              palabras[i] = palabras[j] => tokens[i] = tokens[j])

\* A word was classified a second time after another word, against a
\* non-empty table.
C9_Testigo ==
    /\ pc = "analizado"
    /\ Len(tokens) = 3
    /\ palabras[1] = palabras[3]
    /\ palabras[2] # palabras[1]
    /\ tokens[1] = tokens[3]
    /\ palabras[1] \in DOMAIN palabras_clave

\* C10 as stated: kind IDENTIFICADOR only for a token that is no keyword and
\* matches the identifier pattern, kind ERROR_LEXICO only for a token that is
\* neither a keyword nor an identifier.
C10_CentinelaIdentificaRama ==
    \A i \in LlamadasClasificar :
        LET t == ultimo[i].palabra
            r == ultimo[i].res
        IN  /\ r.tipo = IDENTIFICADOR =>
                (t \notin DOMAIN palabras_clave /\ es_identificador(t))
            /\ r.tipo = ERROR_LEXICO =>
                (t \notin DOMAIN palabras_clave /\ ~es_identificador(t))

\* C10 as amended: kind IDENTIFICADOR only for a token that is no keyword and
\* that es_identificador accepts, or for a keyword whose dictionary line gives
\* IDENTIFICADOR as its kind; kind ERROR_LEXICO only for a token that is
\* neither a keyword nor accepted by es_identificador, or for a keyword whose
\* dictionary line gives ERROR_LEXICO as its kind.
C10_CentinelaORegistrada ==
    \A i \in LlamadasClasificar :
        LET t == ultimo[i].palabra
            r == ultimo[i].res
            clave == t \in DOMAIN palabras_clave
        IN  /\ r.tipo = IDENTIFICADOR =>
                \/ r.rama = "B" /\ ~clave /\ es_identificador(t)
                \/ r.rama = "A" /\ clave /\ palabras_clave[t] = IDENTIFICADOR
            /\ r.tipo = ERROR_LEXICO =>
                \/ r.rama = "C" /\ ~clave /\ ~es_identificador(t)
                \/ r.rama = "A" /\ clave /\ palabras_clave[t] = ERROR_LEXICO

\* A keyword that is no identifier was reported as IDENTIFICADOR, the kind
\* its dictionary line records.
C10_Testigo ==
    \E i \in LlamadasClasificar :
        /\ ultimo[i].palabra = <<"A">>
        /\ ~es_identificador(ultimo[i].palabra)
        /\ ultimo[i].res.rama = "A"
        /\ ultimo[i].res.tipo = IDENTIFICADOR

====
